---- MODULE Spec2Model ----
(***************************************************************************)
(* Receipt total-amount resolver (Task3/receipt_scanner.py):               *)
(* ReceiptScanner.find_total_amount with its helpers clean_number_string,  *)
(* parse_amt and extract_amount_from_line, and the reconciliation done by  *)
(* ReceiptScanner.parse_receipt.                                           *)
(*                                                                         *)
(* Texts are TLA+ strings; a character is a string of length 1.  Regular   *)
(* expressions of the source are written as syntax trees and matched by a  *)
(* backtracking matcher that lists the end positions of a match in the     *)
(* order Python's re module tries them (greedy quantifiers first), so the  *)
(* first element is the match Python reports.                              *)
(***************************************************************************)
EXTENDS Integers, Sequences, FiniteSets, TLC

(***************************************************************************)
(* Characters                                                              *)
(***************************************************************************)
Ch(s, i) == SubSeq(s, i, i)

DigitCh == {"0", "1", "2", "3", "4", "5", "6", "7", "8", "9"}

\* \s of the re module, restricted to the characters texts are built from
SpaceCh == {" ", "\t", "\n"}

LowerOf ==
    [A |-> "a", B |-> "b", C |-> "c", D |-> "d", E |-> "e", F |-> "f", G |-> "g",
     H |-> "h", I |-> "i", J |-> "j", K |-> "k", L |-> "l", M |-> "m", N |-> "n",
     O |-> "o", P |-> "p", Q |-> "q", R |-> "r", S |-> "s", T |-> "t", U |-> "u",
     V |-> "v", W |-> "w", X |-> "x", Y |-> "y", Z |-> "z"]

UpperOf ==
    [a |-> "A", b |-> "B", c |-> "C", d |-> "D", e |-> "E", f |-> "F", g |-> "G",
     h |-> "H", i |-> "I", j |-> "J", k |-> "K", l |-> "L", m |-> "M", n |-> "N",
     o |-> "O", p |-> "P", q |-> "Q", r |-> "R", s |-> "S", t |-> "T", u |-> "U",
     v |-> "V", w |-> "W", x |-> "X", y |-> "Y", z |-> "Z"]

UpperCh == DOMAIN LowerOf

LowerCh == DOMAIN UpperOf

\* \w of the re module: what \b separates from the rest
WordCh == DigitCh \cup UpperCh \cup LowerCh \cup {"_"}

LowCh(c) == IF c \in UpperCh THEN LowerOf[c] ELSE c

UpCh(c) == IF c \in LowerCh THEN UpperOf[c] ELSE c

RECURSIVE lower(_)
\* str.lower()
lower(s) == IF s = "" THEN "" ELSE LowCh(Ch(s, 1)) \o lower(SubSeq(s, 2, Len(s)))

\* str.strip(): whitespace removed at both ends
RECURSIVE lstrip(_)
lstrip(s) ==
    IF s # "" /\ Ch(s, 1) \in SpaceCh THEN lstrip(SubSeq(s, 2, Len(s))) ELSE s

RECURSIVE rstrip(_)
rstrip(s) ==
    IF s # "" /\ Ch(s, Len(s)) \in SpaceCh THEN rstrip(SubSeq(s, 1, Len(s) - 1)) ELSE s

strip(s) == rstrip(lstrip(s))

\* Python's `k in s` for strings
Contains(s, k) ==
    \E i \in 0..(Len(s) - Len(k)) : SubSeq(s, i + 1, i + Len(k)) = k

AnyIn(s, ks) == \E j \in 1..Len(ks) : Contains(s, ks[j])

(***************************************************************************)
(* Regular expressions                                                     *)
(***************************************************************************)
Unbounded == 0 - 1

Set(S) == [t |-> "set", s |-> S]

NotSet(S) == [t |-> "nset", s |-> S]

Lit(w) == [t |-> "lit", w |-> w]

Cat(rs) == [t |-> "cat", rs |-> rs]

Rep(r, lo, hi) == [t |-> "rep", r |-> r, lo |-> lo, hi |-> hi]

Star(r) == Rep(r, 0, Unbounded)

Plus(r) == Rep(r, 1, Unbounded)

Opt(r) == Rep(r, 0, 1)

WordB == [t |-> "wordb"]

Empty == Cat(<<>>)

\* a character against a class, under re.IGNORECASE when ic
InSet(c, S, ic) == c \in S \/ (ic /\ (LowCh(c) \in S \/ UpCh(c) \in S))

IsWord(s, i) == i >= 1 /\ i <= Len(s) /\ Ch(s, i) \in WordCh

\* \b between the characters i and i+1 (offset i)
IsWordBoundary(s, i) == IsWord(s, i) # IsWord(s, i + 1)

RECURSIVE Ends(_, _, _, _)
RECURSIVE CatEnds(_, _, _, _, _)
RECURSIVE EachCatEnds(_, _, _, _, _)
RECURSIVE EachRepEnds(_, _, _, _, _, _)

\* The offsets at which a match of re that starts at offset i of s can end, in
\* the order the backtracking matcher reaches them.
Ends(re, s, i, ic) ==
    CASE re.t = "set" ->
           IF i < Len(s) /\ InSet(Ch(s, i + 1), re.s, ic) THEN <<i + 1>> ELSE <<>>
      [] re.t = "nset" ->
           IF i < Len(s) /\ ~InSet(Ch(s, i + 1), re.s, ic) THEN <<i + 1>> ELSE <<>>
      [] re.t = "lit" ->
           IF /\ i + Len(re.w) <= Len(s)
              /\ LET got == SubSeq(s, i + 1, i + Len(re.w))
                 IN  IF ic THEN lower(got) = lower(re.w) ELSE got = re.w
           THEN <<i + Len(re.w)>>
           ELSE <<>>
      [] re.t = "wordb" -> IF IsWordBoundary(s, i) THEN <<i>> ELSE <<>>
      [] re.t = "cat" -> CatEnds(re.rs, 1, s, i, ic)
      [] re.t = "rep" ->
           (IF re.hi = 0
            THEN <<>>
            ELSE EachRepEnds(SelectSeq(Ends(re.r, s, i, ic), LAMBDA e : e > i),
                             re.r,
                             IF re.lo > 0 THEN re.lo - 1 ELSE 0,
                             IF re.hi = Unbounded THEN Unbounded ELSE re.hi - 1,
                             s, ic))
           \o (IF re.lo <= 0 THEN <<i>> ELSE <<>>)

CatEnds(rs, k, s, i, ic) ==
    IF k > Len(rs)
    THEN <<i>>
    ELSE EachCatEnds(Ends(rs[k], s, i, ic), rs, k + 1, s, ic)

EachCatEnds(es, rs, k, s, ic) ==
    IF es = <<>>
    THEN <<>>
    ELSE CatEnds(rs, k, s, Head(es), ic) \o EachCatEnds(Tail(es), rs, k, s, ic)

EachRepEnds(es, r, lo, hi, s, ic) ==
    IF es = <<>>
    THEN <<>>
    ELSE Ends(Rep(r, lo, hi), s, Head(es), ic) \o EachRepEnds(Tail(es), r, lo, hi, s, ic)

\* A pattern with one capture group: what precedes the group, the group, what
\* follows it.
Pat(pre, grp, suf) == [pre |-> pre, grp |-> grp, suf |-> suf]

RECURSIVE FirstGrp(_, _, _, _, _)
RECURSIVE GrpStep(_, _, _, _, _, _)
\* the group ends ges in turn: the first after which the rest of p matches
FirstGrp(ges, p, s, gs, ic) ==
    IF ges = <<>>
    THEN <<>>
    ELSE GrpStep(Ends(p.suf, s, Head(ges), ic), ges, p, s, gs, ic)

GrpStep(ses, ges, p, s, gs, ic) ==
    IF ses # <<>>
    THEN <<[gs |-> gs, ge |-> Head(ges), end |-> Head(ses)]>>
    ELSE FirstGrp(Tail(ges), p, s, gs, ic)

RECURSIVE FirstPre(_, _, _, _)
RECURSIVE PreStep(_, _, _, _, _)
\* the ends pes of what precedes the group, in turn
FirstPre(pes, p, s, ic) ==
    IF pes = <<>>
    THEN <<>>
    ELSE PreStep(FirstGrp(Ends(p.grp, s, Head(pes), ic), p, s, Head(pes), ic),
                 pes, p, s, ic)

PreStep(m, pes, p, s, ic) == IF m # <<>> THEN m ELSE FirstPre(Tail(pes), p, s, ic)

\* re.match at offset i: <<>> or <<[gs, ge, end]>>, the group's span and the end
MatchAt(p, s, i, ic) == FirstPre(Ends(p.pre, s, i, ic), p, s, ic)

\* re.match at every offset of s
MatchesOf(p, s, ic) == [i \in 0..Len(s) |-> MatchAt(p, s, i, ic)]

MinOf(S) == CHOOSE x \in S : \A y \in S : x <= y

RECURSIVE FindAllFrom(_, _, _)
\* the scan of re.findall: the leftmost match at or after offset i, then on
\* from its end
FindAllFrom(ms, s, i) ==
    LET starts == {j \in i..Len(s) : ms[j] # <<>>}
    IN  IF starts = {}
        THEN <<>>
        ELSE LET j == MinOf(starts)
                 m == ms[j][1]
             IN  <<SubSeq(s, m.gs + 1, m.ge)>>
                 \o FindAllFrom(ms, s, IF m.end > j THEN m.end ELSE j + 1)

\* re.findall(p, s): the group of every non-overlapping match, left to right
findall(p, s, ic) == FindAllFrom(MatchesOf(p, s, ic), s, 0)

FirstMatch(ms, s, starts) ==
    IF starts = {}
    THEN <<>>
    ELSE <<SubSeq(s, ms[MinOf(starts)][1].gs + 1, ms[MinOf(starts)][1].ge)>>

SearchIn(ms, s) == FirstMatch(ms, s, {j \in 0..Len(s) : ms[j] # <<>>})

\* re.search(p, s): <<>> or <<group(1)>> of the leftmost match
search(p, s, ic) == SearchIn(MatchesOf(p, s, ic), s)

RECURSIVE SubFrom(_, _, _, _, _)
RECURSIVE SubStep(_, _, _, _, _, _)
\* the scan of re.sub from offset i: a character that starts no match is kept
SubFrom(re, keep, s, i, ic) ==
    IF i >= Len(s)
    THEN ""
    ELSE SubStep(SelectSeq(Ends(re, s, i, ic), LAMBDA e : e > i), re, keep, s, i, ic)

SubStep(es, re, keep, s, i, ic) ==
    IF es = <<>>
    THEN Ch(s, i + 1) \o SubFrom(re, keep, s, i + 1, ic)
    ELSE (IF keep THEN Ch(s, i + 1) \o Ch(s, Head(es)) ELSE "")
         \o SubFrom(re, keep, s, Head(es), ic)

\* re.sub(re, '', s): every non-overlapping match deleted
sub_delete(re, s, ic) == SubFrom(re, FALSE, s, 0, ic)

\* re.sub(r'(\d)\s+(\d)', r'\1\2', s): a match is replaced by its first and
\* last character
sub_ends(re, s) == SubFrom(re, TRUE, s, 0, FALSE)

(***************************************************************************)
(* Amounts.  A Python float read from a decimal string is kept exactly: the *)
(* integer part as a number and the fractional digits without trailing     *)
(* zeros.  Integer parts of FloatCap or more are kept as FloatCap; the code *)
(* compares amounts with 100000 at most.                                   *)
(***************************************************************************)
FloatCap == 10000000

None == [some |-> FALSE, ip |-> 0, fr |-> ""]

\* an exception on its way out of the function that raised it
Raised == [some |-> FALSE, ip |-> 0, fr |-> "ValueError"]

Amt(ip, fr) == [some |-> TRUE, ip |-> ip, fr |-> fr]

Digits == <<"0", "1", "2", "3", "4", "5", "6", "7", "8", "9">>

DigitVal(c) == (CHOOSE k \in 1..10 : Digits[k] = c) - 1

RECURSIVE NatOf(_, _)
NatOf(ds, acc) ==
    IF ds = ""
    THEN acc
    ELSE LET n == acc * 10 + DigitVal(Ch(ds, 1))
         IN  NatOf(SubSeq(ds, 2, Len(ds)), IF n > FloatCap THEN FloatCap ELSE n)

RECURSIVE StripZeros(_)
StripZeros(ds) ==
    IF ds # "" /\ Ch(ds, Len(ds)) = "0" THEN StripZeros(SubSeq(ds, 1, Len(ds) - 1)) ELSE ds

RECURSIVE FrLeq(_, _)
\* fractional digits a <= fractional digits b
FrLeq(a, b) ==
    IF a = "" THEN TRUE
    ELSE IF b = "" THEN FALSE
    ELSE IF Ch(a, 1) # Ch(b, 1) THEN DigitVal(Ch(a, 1)) < DigitVal(Ch(b, 1))
    ELSE FrLeq(SubSeq(a, 2, Len(a)), SubSeq(b, 2, Len(b)))

Leq(a, b) == a.ip < b.ip \/ (a.ip = b.ip /\ FrLeq(a.fr, b.fr))

Gt(a, b) == ~Leq(a, b)

InRange(lo, v, hi) == Leq(lo, v) /\ Leq(v, hi)

\* max() of a non-empty sequence of amounts
MaxOf(vs) ==
    LET S == {vs[k] : k \in 1..Len(vs)}
    IN  CHOOSE v \in S : \A w \in S : Leq(w, v)

\* str.split(sep) for a one-character separator
split(s, sep) ==
    LET at == {i \in 1..Len(s) : Ch(s, i) = sep}
        \* the k-th separator; 0 before the first, Len(s) + 1 after the last
        cut(k) == IF k = 0 THEN 0
                  ELSE IF k > Cardinality(at) THEN Len(s) + 1
                  ELSE CHOOSE i \in at : Cardinality({j \in at : j < i}) = k - 1
    IN  [k \in 1..(Cardinality(at) + 1) |-> SubSeq(s, cut(k - 1) + 1, cut(k) - 1)]

\* float(c) for a string of digits and dots: ValueError unless it is digits
\* with at most one dot and at least one digit
float(c) ==
    LET parts == split(c, ".")
    IN  IF Len(parts) > 2 \/ c = "" \/ c = "."
        THEN Raised
        ELSE Amt(NatOf(parts[1], 0),
                 IF Len(parts) = 2 THEN StripZeros(parts[2]) ELSE "")

CurrencyCh == {"$", "£", "€", "₹", "¥"}

DigitGap == Cat(<<Set(DigitCh), Plus(Set(SpaceCh)), Set(DigitCh)>>)

\* the cleaning without its last substitution, re.sub(r'[^\d.]', '', s)
clean_number_string_Unfiltered(s) ==
    IF s = ""
    THEN ""
    ELSE LET s1 == sub_ends(DigitGap, s)
             s2 == sub_ends(DigitGap, s1)
             s3 == sub_delete(Set(CurrencyCh), s2, FALSE)
             s4 == sub_delete(Cat(<<WordB, Lit("RM"), WordB>>), s3, TRUE)
         IN  strip(sub_delete(Set({","}), s4, FALSE))

clean_number_string(s) ==
    IF s = ""
    THEN ""
    ELSE LET s1 == sub_ends(DigitGap, s)
             s2 == sub_ends(DigitGap, s1)
             s3 == sub_delete(Set(CurrencyCh), s2, FALSE)
             s4 == sub_delete(Cat(<<WordB, Lit("RM"), WordB>>), s3, TRUE)
             s5 == sub_delete(Set({","}), s4, FALSE)
             s6 == sub_delete(NotSet(DigitCh \cup {"."}), s5, FALSE)
         IN  strip(s6)

Amount100000 == Amt(100000, "")

\* parse_amt without its sanity check
SanityChecked_Off(val) == val

\* `if val > 100000: return None`
SanityChecked(val) ==
    IF val = Raised THEN Raised
    ELSE IF Gt(val, Amount100000) THEN None
    ELSE val

\* `parts = cleaned.split('.')` and the float of the first two of them
FirstNumber(cleaned, parts) ==
    float(IF Len(parts) > 2 THEN parts[1] \o "." \o parts[2] ELSE cleaned)

ParseCleaned(cleaned) ==
    IF cleaned = "" \/ cleaned = "."
    THEN None
    ELSE SanityChecked(FirstNumber(cleaned, split(cleaned, ".")))

\* the body of parse_amt's try block
parse_amt_try(s) == ParseCleaned(clean_number_string(s))

\* parse_amt without its except clause: the exception leaves parse_amt
Caught_Nothing(r) == r

\* `except Exception: return None`
Caught(r) == IF r = Raised THEN None ELSE r

parse_amt(s) == Caught(parse_amt_try(s))

(***************************************************************************)
(* find_total_amount: the patterns                                         *)
(***************************************************************************)
Ws == Set(SpaceCh)

Dg == Set(DigitCh)

\* [:\s]+
Sep == Plus(Set({":"} \cup SpaceCh))

\* the capture group written as (\d+), without the decimals
DirectGrp_Integer == Plus(Dg)

\* the capture group (\d+[,.\s]*\d*) of the direct patterns
DirectGrp == Cat(<<Plus(Dg), Star(Set({",", "."} \cup SpaceCh)), Star(Dg)>>)

\* (\d+\.\d{2})
Decimal2 == Cat(<<Plus(Dg), Lit("."), Dg, Dg>>)

\* matched with re.IGNORECASE
direct_patterns ==
    << Pat(Cat(<<Set({"T", "t"}), Lit("otal"), Star(Ws), Opt(Set({"(", "{"})), Star(Ws),
                 Lit("RM"), Star(Ws), Opt(Set({")", "}"})), Star(Ws), Sep>>),
           DirectGrp, Empty),
       Pat(Cat(<<Set({"T", "t"}), Set({"O", "o"}), Set({"T", "t"}), Set({"A", "a"}),
                 Set({"L", "l"}), Star(Ws), Sep, Opt(Set({"$", "£", "€"})), Star(Ws)>>),
           DirectGrp, Empty),
       Pat(Cat(<<Set({"T", "t"}), Lit("otal"), Star(Ws), Set({"A", "a"}), Lit("mt"),
                 Star(Ws), Set({"P", "p"}), Lit("ayable"), Star(Ws), Sep>>),
           DirectGrp, Empty),
       Pat(Cat(<<Set({"G", "g"}), Lit("rand"), Star(Ws), Set({"T", "t"}), Lit("otal"),
                 Star(Ws), Sep, Star(Set({"$", "£", "€", "R", "M"})), Star(Ws)>>),
           DirectGrp, Empty),
       Pat(Cat(<<Set({"F", "f"}), Lit("inal"), Star(Ws), Set({"T", "t"}), Lit("otal"),
                 Star(Ws), Sep, Star(Set({"$", "£", "€", "R", "M"})), Star(Ws)>>),
           DirectGrp, Empty),
       Pat(Cat(<<Lit("incl"), Opt(Lit(".")), Star(Ws), Lit("GST"), Opt(Lit(")")),
                 Opt(Lit(".")), Star(Ws)>>),
           DirectGrp, Empty),
       Pat(Cat(<<Lit("TOTAL"), Opt(Lit(".")), Plus(Ws)>>), Decimal2, Empty),
       Pat(Cat(<<WordB, Lit("RM"), Star(Ws)>>), DirectGrp, Empty) >>

total_keywords ==
    << "grand total", "final total", "total amount", "amount payable",
       "amount due", "balance due", "net total", "total due",
       "total payable", "totalamtpayable", "total amt",
       "total rounded", "total incl", "total (rm", "total {rm",
       "jotal", "t0tal", "tota1", "totai",
       "total:", "total.",
       "total" >>

skip_keywords ==
    << "subtotal", "sub total", "sub-total", "item total",
       "before tax", "pretax", "qty total" >>

exclude_line_keywords ==
    << "change", "cash tendered", "credit", "debit", "visa", "master",
       "card", "tender", "gst summary", "tax summary" >>

\* [\d,.\s]+
LooseGrp == Plus(Set(DigitCh \cup {",", "."} \cup SpaceCh))

\* the patterns of extract_amount_from_line, matched case-sensitively
line_patterns ==
    << Pat(Cat(<<Set({"$", "£", "€"}), Star(Ws)>>), LooseGrp, Empty),
       Pat(Cat(<<WordB, Lit("RM"), Star(Ws)>>), LooseGrp, Empty),
       Pat(Cat(<<Set({":"} \cup SpaceCh), Star(Ws)>>),
           Cat(<<Plus(Set(DigitCh \cup {","})), Lit("."), Dg, Dg>>), WordB),
       Pat(WordB,
           Cat(<<Rep(Dg, 1, 3), Star(Cat(<<Lit(","), Dg, Dg, Dg>>)), Lit("."), Dg, Dg>>),
           WordB),
       Pat(WordB, Decimal2, WordB) >>

\* the pattern with one or two decimals, r'\b(\d+\.\d{1,2})\b'
decimal_pattern_OneOrTwo == Pat(WordB, Cat(<<Plus(Dg), Lit("."), Rep(Dg, 1, 2)>>), WordB)

\* r'\b(\d+\.\d{2})\b' of the last strategy
decimal_pattern == Pat(WordB, Decimal2, WordB)

Amount001 == Amt(0, "01")

Amount1 == Amt(1, "")

Amount10000 == Amt(10000, "")

Amount50000 == Amt(50000, "")

(***************************************************************************)
(* find_total_amount: the four strategies.  Each yields an amount, None,   *)
(* or Raised when an exception leaves it.                                  *)
(***************************************************************************)
\* the range check written with `0.01 < amt`
InTotalRange_StrictLower(amt) ==
    amt # None /\ Gt(amt, Amount001) /\ Leq(amt, Amount50000)

\* `amt is not None and 0.01 <= amt <= 50000`
InTotalRange(amt) == amt # None /\ InRange(Amount001, amt, Amount50000)

RECURSIVE FirstInRange(_, _)
\* the matches examined from the first to the last, `for match in matches`
FirstInRange(matches, k) ==
    IF k > Len(matches) THEN None
    ELSE IF InTotalRange(parse_amt(matches[k])) THEN parse_amt(matches[k])
    ELSE FirstInRange(matches, k + 1)

LastInRange_Forward(matches, k) == FirstInRange(matches, 1)

RECURSIVE LastInRange(_, _)
RECURSIVE TakeInRange(_, _, _)
\* `for match in reversed(matches)`, from match k down to the first
LastInRange(matches, k) ==
    IF k = 0 THEN None ELSE TakeInRange(parse_amt(matches[k]), matches, k)

\* `if amt is not None and 0.01 <= amt <= 50000: return amt`
TakeInRange(amt, matches, k) ==
    IF amt = Raised THEN Raised
    ELSE IF InTotalRange(amt) THEN amt
    ELSE LastInRange(matches, k - 1)

RECURSIVE DirectFrom(_, _)
RECURSIVE DirectMatches(_, _, _)
RECURSIVE DirectTake(_, _, _)
\* `for pattern in direct_patterns`, from pattern j on
DirectFrom(text, j) ==
    IF j > Len(direct_patterns)
    THEN None
    ELSE DirectMatches(findall(direct_patterns[j], text, TRUE), text, j)

DirectMatches(matches, text, j) ==
    DirectTake(LastInRange(matches, Len(matches)), text, j)

DirectTake(amt, text, j) == IF amt # None THEN amt ELSE DirectFrom(text, j + 1)

\* STRATEGY 1: direct regex patterns on the full text
Phase1(text) == DirectFrom(text, 1)

\* `if amt is not None and 0.01 <= amt <= 50000: amounts.append(amt)`
Appended(amt) ==
    IF amt = Raised THEN <<Raised>>
    ELSE IF InTotalRange(amt) THEN <<amt>>
    ELSE <<>>

RECURSIVE AmountsOf(_, _)
AmountsOf(matches, k) ==
    IF k > Len(matches)
    THEN <<>>
    ELSE Appended(parse_amt(matches[k])) \o AmountsOf(matches, k + 1)

RECURSIVE LineAmounts(_, _)
LineAmounts(line, j) ==
    IF j > Len(line_patterns)
    THEN <<>>
    ELSE AmountsOf(findall(line_patterns[j], line, FALSE), 1) \o LineAmounts(line, j + 1)

\* the last amount found instead of the largest, amounts[-1]
MaxOrNone_Last(amounts) ==
    IF \E k \in 1..Len(amounts) : amounts[k] = Raised THEN Raised
    ELSE IF amounts # <<>> THEN amounts[Len(amounts)]
    ELSE None

\* max(amounts) if amounts else None
MaxOrNone(amounts) ==
    IF \E k \in 1..Len(amounts) : amounts[k] = Raised THEN Raised
    ELSE IF amounts # <<>> THEN MaxOf(amounts)
    ELSE None

extract_amount_from_line(line) == MaxOrNone(LineAmounts(line, 1))

\* text.splitlines(), stripped, the empty lines dropped
LinesOf(text) ==
    LET raw == split(text, "\n")
        stripped == [k \in 1..Len(raw) |-> strip(raw[k])]
    IN  SelectSeq(stripped, LAMBDA ln : ln # "")

NoHit == [amt |-> None, src |-> 0]

\* the `break` after the next line leaving the scan of the lines
NextAmount_Stop(amt, lines, idx) ==
    IF amt # None THEN [amt |-> amt, src |-> idx + 1] ELSE NoHit

RECURSIVE ScanUp(_, _)
RECURSIVE ScanLine(_, _, _)
RECURSIVE OwnAmount(_, _, _)
RECURSIVE NextAmount(_, _, _)
\* `for idx in range(len(lines) - 1, -1, -1)` from line idx (counted from 1) up:
\* the amount returned and the line it was read from
ScanUp(lines, idx) ==
    IF idx = 0 THEN NoHit ELSE ScanLine(lower(lines[idx]), lines, idx)

ScanLine(low, lines, idx) ==
    IF AnyIn(low, skip_keywords) THEN ScanUp(lines, idx - 1)
    ELSE IF AnyIn(low, exclude_line_keywords) THEN ScanUp(lines, idx - 1)
    ELSE IF AnyIn(low, total_keywords) /\ ~Contains(low, "sub")
    THEN OwnAmount(extract_amount_from_line(lines[idx]), lines, idx)
    ELSE ScanUp(lines, idx - 1)

\* the amount of the keyword line itself
OwnAmount(amt, lines, idx) ==
    IF amt # None THEN [amt |-> amt, src |-> idx]
    ELSE IF idx + 1 <= Len(lines)
    THEN NextAmount(extract_amount_from_line(lines[idx + 1]), lines, idx)
    ELSE ScanUp(lines, idx - 1)

\* `# Try next line`
NextAmount(amt, lines, idx) ==
    IF amt # None THEN [amt |-> amt, src |-> idx + 1] ELSE ScanUp(lines, idx - 1)

\* STRATEGY 2: line-by-line analysis, bottom to top
Phase2(lines) == ScanUp(lines, Len(lines))

\* the bottom region of strategy 3: range(len - 1, max(-1, len - 25), -1)
BottomLines == 24

bottom_skip == skip_keywords \o <<"change", "cash", "gst summary">>

\* `if amt is not None and 1.0 <= amt <= 50000: bottom_amounts.append(...)`
BottomAppended(amt) ==
    IF amt = Raised THEN <<Raised>>
    ELSE IF amt # None /\ InRange(Amount1, amt, Amount50000) THEN <<amt>>
    ELSE <<>>

RECURSIVE BottomAmounts_OneMore(_, _)
\* the region one line longer, range(len - 1, max(-1, len - 26), -1)
BottomAmounts_OneMore(lines, idx) ==
    IF idx = 0 \/ idx <= Len(lines) - BottomLines - 1
    THEN <<>>
    ELSE (IF AnyIn(lower(lines[idx]), bottom_skip)
          THEN <<>>
          ELSE BottomAppended(extract_amount_from_line(lines[idx])))
         \o BottomAmounts_OneMore(lines, idx - 1)

RECURSIVE BottomAmounts(_, _)
BottomAmounts(lines, idx) ==
    IF idx = 0 \/ idx <= Len(lines) - BottomLines
    THEN <<>>
    ELSE (IF AnyIn(lower(lines[idx]), bottom_skip)
          THEN <<>>
          ELSE BottomAppended(extract_amount_from_line(lines[idx])))
         \o BottomAmounts(lines, idx - 1)

\* STRATEGY 3: the largest amount in the bottom portion
Phase3(lines) == MaxOrNone(BottomAmounts(lines, Len(lines)))

\* the filter written without its upper bound, `if 1.0 <= v`
ValidOf_NoUpper(vs) == SelectSeq(vs, LAMBDA v : v.some /\ Leq(Amount1, v))

\* `if 1.0 <= v <= 10000: valid.append(v)`
ValidOf(vs) == SelectSeq(vs, LAMBDA v : v.some /\ InRange(Amount1, v, Amount10000))

FloatsOf(all_decimals) == [k \in 1..Len(all_decimals) |-> float(all_decimals[k])]

\* STRATEGY 4: any decimal number in the text
Phase4(text) == MaxOrNone(ValidOf(FloatsOf(findall(decimal_pattern, text, FALSE))))

(***************************************************************************)
(* parse_receipt: subtotal, tax and the reconciliation of the total        *)
(***************************************************************************)
\* ([\d,]+\.?\d{0,2})
FieldGrp == Cat(<<Plus(Set(DigitCh \cup {","})), Opt(Lit(".")), Rep(Dg, 0, 2)>>)

FieldPat(word) ==
    Pat(Cat(<<Lit(word), Star(Ws), Opt(Set({"$", "£", "€"})), Star(Ws)>>), FieldGrp, Empty)

\* matched with re.IGNORECASE
subtotal_patterns == <<FieldPat("Subtotal"), FieldPat("SUB TOTAL")>>

tax_patterns == <<FieldPat("Tax"), FieldPat("TAX"), FieldPat("GST")>>

RECURSIVE FirstField(_, _, _)
RECURSIVE FieldMatch(_, _, _, _)
RECURSIVE FieldValue(_, _, _, _)
\* `for pattern in patterns`: the first pattern that is found in the text and
\* whose group, commas removed, is a float; a ValueError goes on to the next
FirstField(patterns, text, j) ==
    IF j > Len(patterns)
    THEN None
    ELSE FieldMatch(search(patterns[j], text, TRUE), patterns, text, j)

FieldMatch(match, patterns, text, j) ==
    IF match = <<>>
    THEN FirstField(patterns, text, j + 1)
    ELSE FieldValue(float(sub_delete(Set({","}), match[1], FALSE)), patterns, text, j)

FieldValue(v, patterns, text, j) ==
    IF v = Raised THEN FirstField(patterns, text, j + 1) ELSE v

Amount5000 == Amt(5000, "")

\* an amount of at most two decimals, in hundredths
Cents(v) ==
    v.ip * 100 + (IF v.fr = "" THEN 0
                  ELSE IF Len(v.fr) = 1 THEN 10 * DigitVal(v.fr)
                  ELSE 10 * DigitVal(Ch(v.fr, 1)) + DigitVal(Ch(v.fr, 2)))

OfCents(c) ==
    Amt(IF c \div 100 > FloatCap THEN FloatCap ELSE c \div 100,
        StripZeros(Digits[((c % 100) \div 10) + 1] \o Digits[(c % 10) + 1]))

\* round(subtotal + tax, 2) of two amounts of at most two decimals
round2_sum(a, b) == OfCents(Cents(a) + Cents(b))

\* the reconciliation written without the test of the total
reconcile_always(total, subtotal, tax) ==
    IF subtotal # None /\ tax # None
    THEN round2_sum(subtotal, tax)
    ELSE total

\* the total parse_receipt leaves in data['total']
reconcile(total, subtotal, tax) ==
    IF (total = None \/ Gt(total, Amount5000)) /\ subtotal # None /\ tax # None
    THEN round2_sum(subtotal, tax)
    ELSE total

(***************************************************************************)
(* The texts parse_receipt is called with: receipts of up to MaxLines      *)
(* lines drawn from Vocabulary, and the texts without any line.            *)
(***************************************************************************)
MaxLines == 3

Vocabulary ==
    { "Total: $30",
      "Item1: $10",
      "Subtotal $100.50",
      "Tax $8.04",
      "TOTAL: $6000.00",
      "TOTAL 1 00.50",
      "Cash Tendered: $50.00 Change: $5.16",
      "Total $..",
      "Discount 9999999.00",
      "Discount 9,999,999.00" }

BlankTexts == {"", " \n\t "}

RECURSIVE TextsOf(_)
\* the texts of exactly n lines
TextsOf(n) ==
    IF n = 1
    THEN Vocabulary
    ELSE {t \o "\n" \o ln : t \in TextsOf(n - 1), ln \in Vocabulary}

Texts == BlankTexts \cup UNION {TextsOf(n) : n \in 1..MaxLines}

(***************************************************************************)
(* One call of parse_receipt(text): find_total_amount strategy by          *)
(* strategy, then the subtotal and tax fields, then the reconciliation.    *)
(* find_date and find_merchant, which the total does not depend on, are    *)
(* left out.                                                               *)
(***************************************************************************)
VARIABLES
    text,       \* the argument
    pc,         \* where the call is
    lines,      \* find_total_amount's `lines`
    resolved,   \* what find_total_amount returned
    phase,      \* the strategy that returned it, 0 when none did
    src,        \* for strategy 2, the line the amount was read from
    raised,     \* an exception left find_total_amount
    subtotal,   \* data['subtotal']
    tax,        \* data['tax']
    total,      \* data['total']
    arg,        \* the argument of a helper called on its own
    cleaned,    \* parse_amt's `cleaned`
    val,        \* what the helper returned
    calls,      \* for calls running in several threads, each thread's frame
    scanner,    \* the fields of the ReceiptScanner object
    jobs,       \* main.py's `jobs`: the record of each job id
    history,    \* main.py's `history`
    history_file,   \* the contents of outputs/history.json
    _model,     \* transcriber.py's `_model`
    loads,      \* the calls of whisper.load_model that returned
    threads,    \* the frame of each job's process_video thread
    loop,       \* the frame of the handler running on the event loop
    response    \* what the last GET /api/status/{job_id} returned

\* the state of the lyrics backend
backend == <<jobs, history, history_file, _model, loads, threads, loop, response>>

vars ==
    <<text, pc, lines, resolved, phase, src, raised, subtotal, tax, total, arg, cleaned, val,
      calls, scanner, backend>>

\* JSON null, Python's None in a job record
null == "null"

\* the event loop runs no handler
Idle == [pc |-> "idle", data |-> <<>>]

\* start_processing: the record of a new job; of its fields the message, the
\* lyrics with timestamps, the video info, the word statistics, the
\* sentiment, the language and the download progress are left out
Queued ==
    [status |-> "queued", progress |-> 0, lyrics |-> null, wordcloud_url |-> null,
     pdf_url |-> null]

\* no status was requested yet
NoResponse == [Queued EXCEPT !.status = null]

\* json.dump(data, f): the entries of the list and its closing bracket,
\* written -1; a history entry is written as its job id
Document(data) == Append(data, -1)

\* the backend's modules as imported, with a history of H loaded from the
\* history file: jobs = {}, history = [] or the file's list, _model = None;
\* without a history file the history is empty
Imported(H) ==
    /\ jobs = <<>>
    /\ history \in H
    /\ history_file = IF history = <<>> THEN <<>> ELSE Document(history)
    /\ _model = null
    /\ loads = 0
    /\ threads = <<>>
    /\ loop = Idle
    /\ response = NoResponse

\* __init__: self.tesseract_config = r'--oem 3 --psm 6'
ReceiptScanner == [tesseract_config |-> "--oem 3 --psm 6"]

\* a call with one of the texts of T
Called(T) ==
    /\ text \in T
    /\ pc = "call"
    /\ lines = <<>>
    /\ resolved = None
    /\ phase = 0
    /\ src = 0
    /\ raised = FALSE
    /\ subtotal = None
    /\ tax = None
    /\ total = None
    /\ arg = ""
    /\ cleaned = ""
    /\ val = None
    /\ calls = <<>>
    /\ scanner = ReceiptScanner
    /\ Imported({<<>>})

Init == Called(Texts)

\* a strategy that keeps its amount and goes on to the next one instead of
\* returning it
Outcome_NoReturn(r, k, from, next) ==
    /\ raised' = (r = Raised)
    /\ resolved' = IF r = Raised \/ r = None THEN resolved ELSE r
    /\ phase' = IF r = Raised \/ r = None THEN phase ELSE k
    /\ src' = IF r = Raised \/ r = None THEN src ELSE from
    /\ pc' = IF r = Raised THEN "raised" ELSE next

\* what a strategy's outcome r does to the call: an exception ends it, an
\* amount is returned, None goes on to `next`
Outcome(r, k, from, next) ==
    /\ raised' = (r = Raised)
    /\ resolved' = IF r = Raised THEN None ELSE r
    /\ phase' = IF r # None /\ r # Raised THEN k ELSE 0
    /\ src' = IF r # None /\ r # Raised THEN from ELSE 0
    /\ pc' = IF r = Raised THEN "raised" ELSE IF r # None THEN "returned" ELSE next

HitOutcome(hit) == Outcome(hit.amt, 2, hit.src, "strategy3")

\* lines = [...]; if not lines: return None
SplitLines ==
    /\ pc = "call"
    /\ lines' = LinesOf(text)
    /\ pc' = IF lines' = <<>> THEN "returned" ELSE "strategy1"
    /\ UNCHANGED <<backend, calls, scanner, arg, cleaned, val, text, resolved, phase, src, raised, subtotal, tax, total>>

Strategy1 ==
    /\ pc = "strategy1"
    /\ Outcome(Phase1(text), 1, 0, "strategy2")
    /\ UNCHANGED <<backend, calls, scanner, arg, cleaned, val, text, lines, subtotal, tax, total>>

Strategy2 ==
    /\ pc = "strategy2"
    /\ HitOutcome(Phase2(lines))
    /\ UNCHANGED <<backend, calls, scanner, arg, cleaned, val, text, lines, subtotal, tax, total>>

Strategy3 ==
    /\ pc = "strategy3"
    /\ Outcome(Phase3(lines), 3, 0, "strategy4")
    /\ UNCHANGED <<backend, calls, scanner, arg, cleaned, val, text, lines, subtotal, tax, total>>

\* the last strategy returns its amount or None
Strategy4 ==
    /\ pc = "strategy4"
    /\ Outcome(Phase4(text), 4, 0, "returned")
    /\ UNCHANGED <<backend, calls, scanner, arg, cleaned, val, text, lines, subtotal, tax, total>>

\* data = {'total': find_total_amount(text), ...} and the two pattern loops
ExtractFields ==
    /\ pc = "returned"
    /\ total' = resolved
    /\ subtotal' = FirstField(subtotal_patterns, text, 1)
    /\ tax' = FirstField(tax_patterns, text, 1)
    /\ pc' = "fields"
    /\ UNCHANGED <<backend, calls, scanner, arg, cleaned, val, text, lines, resolved, phase, src, raised>>

Reconcile ==
    /\ pc = "fields"
    /\ total' = reconcile(total, subtotal, tax)
    /\ pc' = "done"
    /\ UNCHANGED <<backend, calls, scanner, arg, cleaned, val, text, lines, resolved, phase, src, raised, subtotal, tax>>

Next ==
    \/ SplitLines
    \/ Strategy1
    \/ Strategy2
    \/ Strategy3
    \/ Strategy4
    \/ ExtractFields
    \/ Reconcile

Spec == Init /\ [][Next]_vars

(***************************************************************************)
(* Itemised receipts: up to MaxItems item lines `ItemN: $a` followed by    *)
(* the line `Total: $T`, amounts written as plain decimals.                *)
(***************************************************************************)
MaxItems == 2

ItemAmounts == {"10", "20", "45.99", "60000.00"}

TotalAmounts ==
    {"0", "0.01", "30", "30.00", "14.84", "6000.5", "50000", "50000.00", "50000.01", "60000"}

RECURSIVE ItemLines(_)
\* the n item lines, each with its line break
ItemLines(n) ==
    IF n = 0
    THEN {""}
    ELSE {t \o "Item" \o Digits[n + 1] \o ": $" \o a \o "\n" :
            t \in ItemLines(n - 1), a \in ItemAmounts}

Itemised ==
    {[text |-> items \o "Total: $" \o T, T |-> T] :
        items \in UNION {ItemLines(n) : n \in 0..MaxItems}, T \in TotalAmounts}

SpecItemised == Called({r.text : r \in Itemised}) /\ [][Next]_vars

(***************************************************************************)
(* Properties                                                              *)
(***************************************************************************)
Returned == pc \in {"returned", "fields", "done"}

HasLine(ln) == \E k \in 1..Len(lines) : lines[k] = ln

HasDigit(s) == \E i \in 1..Len(s) : Ch(s, i) \in DigitCh

\* C1: every amount find_total_amount returns lies in [0.01, 50000], and one
\* returned by the last strategy lies in [1.0, 10000].
C1_ReturnedInRange ==
    Returned /\ resolved # None =>
        /\ InRange(Amount001, resolved, Amount50000)
        /\ phase = 4 => InRange(Amount1, resolved, Amount10000)

\* the last strategy returned an amount, for a text holding a larger number
C1_Witness ==
    /\ pc = "returned"
    /\ phase = 4
    /\ resolved # None
    /\ HasLine("Discount 9999999.00")

\* C2: the strategies are tried in the order 1, 2, 3, 4 and the value returned
\* is that of the first strategy that yields one; None is returned only when
\* none of the four yields a value.
C2_FirstStrategyWins ==
    pc = "returned" /\ lines # <<>> =>
        IF Phase1(text) # None THEN phase = 1 /\ resolved = Phase1(text)
        ELSE IF Phase2(lines).amt # None THEN phase = 2 /\ resolved = Phase2(lines).amt
        ELSE IF Phase3(lines) # None THEN phase = 3 /\ resolved = Phase3(lines)
        ELSE IF Phase4(text) # None THEN phase = 4 /\ resolved = Phase4(text)
        ELSE phase = 0 /\ resolved = None

\* strategy 3 returned although strategy 4 has another candidate
C2_Witness ==
    /\ pc = "returned"
    /\ phase = 3
    /\ Phase4(text) # None
    /\ Phase4(text) # resolved

\* C3: find_total_amount never raises, and returns None for the empty text,
\* for a text of whitespace and for a text without a digit.
C3_NeverRaises ==
    /\ ~raised
    /\ pc # "raised"
    /\ Returned /\ (strip(text) = "" \/ ~HasDigit(text)) => resolved = None

\* a text without a digit in which a candidate's float() raised ValueError
C3_Witness ==
    /\ pc = "returned"
    /\ resolved = None
    /\ ~HasDigit(text)
    /\ HasLine("Total $..")
    /\ findall(line_patterns[1], "Total $..", FALSE) = <<"..">>
    /\ parse_amt_try("..") = Raised

\* C4: parse_receipt overwrites the total with round(subtotal + tax, 2) exactly
\* when find_total_amount returned None or more than 5000 and both a subtotal
\* and a tax were extracted; otherwise the total is what find_total_amount
\* returned.
C4_Reconciliation ==
    pc = "done" =>
        IF (resolved = None \/ Gt(resolved, Amount5000)) /\ subtotal # None /\ tax # None
        THEN total = OfCents(Cents(subtotal) + Cents(tax))
        ELSE total = resolved

\* a total above 5000 was replaced by subtotal + tax
C4_Witness ==
    /\ pc = "done"
    /\ resolved = Amt(6000, "")
    /\ subtotal = Amt(100, "5")
    /\ tax = Amt(8, "04")
    /\ total = Amt(108, "54")

\* the labelled total lines and the subtotal lines of Vocabulary, with the
\* amounts printed on them
LabelledTotals ==
    { [line |-> "Total: $30", amt |-> Amt(30, "")],
      [line |-> "TOTAL: $6000.00", amt |-> Amt(6000, "")] }

SubtotalLines == { [line |-> "Subtotal $100.50", amt |-> Amt(100, "5")] }

TotalKeywordLine(ln) ==
    AnyIn(lower(ln), total_keywords) /\ ~Contains(lower(ln), "sub")

\* C5: when the text has a labelled total line with an amount in range and a
\* subtotal line with another amount, find_total_amount returns the total
\* line's amount, whatever the order of the two lines.
C5_TotalNotSubtotal ==
    pc = "returned" =>
        \A t \in LabelledTotals, st \in SubtotalLines :
            /\ HasLine(t.line)
            /\ HasLine(st.line)
            /\ \A k \in 1..Len(lines) : TotalKeywordLine(lines[k]) => lines[k] = t.line
            => resolved = t.amt

\* C6: for item lines followed by the line `Total: $T`, T in [0.01, 50000],
\* find_total_amount returns T.
C6_LabelledTotal ==
    pc = "returned" =>
        \A r \in Itemised :
            text = r.text /\ InRange(Amount001, float(r.T), Amount50000) => resolved = float(r.T)

\* two item lines, one of them with the larger amount, and the total returned
C6_Witness ==
    /\ pc = "returned"
    /\ text = "Item1: $10\nItem2: $45.99\nTotal: $30"
    /\ resolved = Amt(30, "")
    /\ phase = 1

\* C7: for a text of a subtotal line and a tax line and no total line,
\* find_total_amount returns None and parse_receipt sets the total to
\* round(subtotal + tax, 2).
C7_SubtotalPlusTax ==
    pc = "done" /\ lines = <<"Subtotal $100.50", "Tax $8.04">> =>
        /\ resolved = None
        /\ total = Amt(108, "54")

\* C8: for the text "TOTAL 1 00.50" find_total_amount returns 100.50.
C8_SplitDigits ==
    pc = "returned" /\ text = "TOTAL 1 00.50" => resolved = Amt(100, "5")

\* C9: strategy 2 never returns an amount read from a line that holds one of
\* skip_keywords or exclude_line_keywords, also when that line is the line
\* below a total keyword line.
C9_ExcludedLines ==
    pc = "returned" /\ phase = 2 =>
        ~AnyIn(lower(lines[src]), skip_keywords \o exclude_line_keywords)

\* the numbers of Vocabulary above parse_amt's bound of 100000, as printed
OverBound == {"9999999.00", "9,999,999.00"}

OverBoundLines == {"Discount 9999999.00", "Discount 9,999,999.00"}

\* C10: a candidate above 100000 is rejected by parse_amt, and a text whose
\* only numbers are above that bound resolves to None.
C10_OverBound ==
    /\ \A n \in OverBound : parse_amt(n) = None
    /\ pc = "returned" /\ (\A k \in 1..Len(lines) : lines[k] \in OverBoundLines)
         => resolved = None

(***************************************************************************)
(* Single labelled total lines: `TOTAL: $A` and `Total (RM) : A`, A a      *)
(* plain two-decimal amount.                                               *)
(***************************************************************************)
LabelledAmounts ==
    { "14.84", "436.20", "0.01", "0.00", "0.10", "5.00", "9.99", "1234.56",
      "4999.99", "5000.01", "49999.99", "50000.00", "50000.01", "100000.00" }

LabelledForms == {"TOTAL: $", "Total (RM) : "}

Labelled == {[text |-> f \o A, A |-> A] : f \in LabelledForms, A \in LabelledAmounts}

SpecLabelled == Called({r.text : r \in Labelled}) /\ [][Next]_vars

\* C11: for a text of the single line `TOTAL: $A` or `Total (RM) : A`, A a
\* plain two-decimal amount in [0.01, 50000], find_total_amount returns A.
C11_SingleLabelledLine ==
    pc = "returned" =>
        \A r \in Labelled :
            text = r.text /\ InRange(Amount001, float(r.A), Amount50000)
                => resolved = float(r.A) /\ phase = 1

\* 436.20 was returned for the line with the RM token
C11_Witness ==
    /\ pc = "returned"
    /\ text = "Total (RM) : 436.20"
    /\ resolved = Amt(436, "2")

(***************************************************************************)
(* The helpers called on their own: parse_amt(arg) in its two steps, the   *)
(* cleaning and the parsing of `cleaned`; clean_number_string applied to   *)
(* its own result; extract_amount_from_line(arg).                          *)
(***************************************************************************)
MaxArgLen == 4

ArgAlphabet == {"1", "5", ".", " ", "R", "M", "$"}

RECURSIVE StringsOf(_)
\* the strings of exactly n characters of ArgAlphabet
StringsOf(n) ==
    IF n = 0 THEN {""} ELSE {s \o c : s \in StringsOf(n - 1), c \in ArgAlphabet}

\* candidates as the patterns capture them, longer than MaxArgLen
Candidates ==
    { "14.84", "1 00.50", "RM 1 00.50", "1 2 3 4 5", "$1,234.56", "9,999,999.00",
      "9999999.00", "100000", "100000.00", "100000.01", "100001", "99999.99",
      "-5.00", "1.5.1", "12.34.56", "100000.00.5", "1..5", ".5.3", "1,5.5,1.7",
      "rm12.50", "R,M", "\t1\n5 " }

Args == Candidates \cup UNION {StringsOf(n) : n \in 0..MaxArgLen}

Lines ==
    Vocabulary \cup
    { "$5.16 $50.00", "$50.00 $5.16", "2 x $3.00 $6.00", "RM 45.00", "RM45.00 RM 4.50",
      "Total (RM) : 436.20", "TOTAL: $1,234.56", "1,234.56 234.57", "12.50kg",
      "Qty 3 12.345", "$0.00", "$60000.00 $0.01", "$1 00.50", "no amount", "$ 7" }

\* a call of parse_amt with a string of A or of extract_amount_from_line with
\* a line of L
HelperCalled(A, L) ==
    /\ \/ pc = "parse_amt" /\ arg \in A
       \/ pc = "extract_amount_from_line" /\ arg \in L
    /\ text = ""
    /\ lines = <<>>
    /\ resolved = None
    /\ phase = 0
    /\ src = 0
    /\ raised = FALSE
    /\ subtotal = None
    /\ tax = None
    /\ total = None
    /\ cleaned = ""
    /\ val = None
    /\ calls = <<>>
    /\ scanner = ReceiptScanner
    /\ Imported({<<>>})

\* cleaned = clean_number_string(s)
Clean ==
    /\ pc = "parse_amt"
    /\ cleaned' = clean_number_string(arg)
    /\ pc' = "cleaned"
    /\ UNCHANGED <<backend, calls, scanner, arg, val, text, lines, resolved, phase, src, raised, subtotal, tax, total>>

\* the rest of parse_amt, from `if not cleaned` to its return
Parse ==
    /\ pc = "cleaned"
    /\ val' = Caught(ParseCleaned(cleaned))
    /\ pc' = "parsed"
    /\ UNCHANGED <<backend, calls, scanner, arg, cleaned, text, lines, resolved, phase, src, raised, subtotal, tax, total>>

\* clean_number_string applied to what it returned
Reclean ==
    /\ pc = "cleaned"
    /\ cleaned' = clean_number_string(cleaned)
    /\ pc' = "recleaned"
    /\ UNCHANGED <<backend, calls, scanner, arg, val, text, lines, resolved, phase, src, raised, subtotal, tax, total>>

ExtractLine ==
    /\ pc = "extract_amount_from_line"
    /\ val' = extract_amount_from_line(arg)
    /\ pc' = "extracted"
    /\ UNCHANGED <<backend, calls, scanner, arg, cleaned, text, lines, resolved, phase, src, raised, subtotal, tax, total>>

NextHelper ==
    \/ Clean
    \/ Parse
    \/ ExtractLine

SpecHelpers == HelperCalled(Args, Lines) /\ [][NextHelper]_vars

NextClean ==
    \/ Clean
    \/ Reclean

SpecClean == HelperCalled(Args, {}) /\ [][NextClean]_vars

\* C12: clean_number_string applied to its own result returns that result.
C12_CleanIdempotent == pc = "recleaned" => cleaned = clean_number_string(arg)

\* a string with a split number and a currency token, cleaned twice
C12_Witness ==
    /\ pc = "recleaned"
    /\ arg = "RM 1 00.50"
    /\ cleaned = "100.50"

(***************************************************************************)
(* find_total_amount called in several threads on one scanner.  A call's   *)
(* text, lines and result are locals of its own frame; the steps of the    *)
(* calls interleave.                                                       *)
(***************************************************************************)
NThreads == 2

Threads == 1..NThreads

ThreadTexts ==
    { "", "Total: $30", "Item1: $10", "Tax $8.04", "Total $..\nItem1: $10",
      "Discount 9999999.00" }

Frame(t) == [text |-> t, pc |-> "call", lines |-> <<>>, resolved |-> None]

ThreadsCalled ==
    /\ calls \in [Threads -> {Frame(t) : t \in ThreadTexts}]
    /\ scanner = ReceiptScanner
    /\ text = ""
    /\ pc = "threads"
    /\ lines = <<>>
    /\ resolved = None
    /\ phase = 0
    /\ src = 0
    /\ raised = FALSE
    /\ subtotal = None
    /\ tax = None
    /\ total = None
    /\ arg = ""
    /\ cleaned = ""
    /\ val = None
    /\ Imported({<<>>})

\* `lines` written as one attribute of the scanner, which every call reads
StoreLines_OnScanner(cs, t, lns) == [u \in DOMAIN cs |-> [cs[u] EXCEPT !.lines = lns]]

\* lines = [...]: a local of the frame of thread t
StoreLines(cs, t, lns) == [cs EXCEPT ![t].lines = lns]

\* the frames after a strategy of thread t yielded r: returned, or on to `next`
Goes(cs, t, r, next) ==
    [cs EXCEPT ![t].resolved = r, ![t].pc = IF r # None THEN "returned" ELSE next]

Sequential ==
    UNCHANGED <<backend, scanner, text, pc, lines, resolved, phase, src, raised, subtotal, tax, total,
                arg, cleaned, val>>

TSplitLines(t) ==
    /\ calls[t].pc = "call"
    /\ calls' = [StoreLines(calls, t, LinesOf(calls[t].text)) EXCEPT
                    ![t].pc = IF LinesOf(calls[t].text) = <<>> THEN "returned" ELSE "strategy1"]
    /\ Sequential

TStrategy1(t) ==
    /\ calls[t].pc = "strategy1"
    /\ calls' = Goes(calls, t, Phase1(calls[t].text), "strategy2")
    /\ Sequential

TStrategy2(t) ==
    /\ calls[t].pc = "strategy2"
    /\ calls' = Goes(calls, t, Phase2(calls[t].lines).amt, "strategy3")
    /\ Sequential

TStrategy3(t) ==
    /\ calls[t].pc = "strategy3"
    /\ calls' = Goes(calls, t, Phase3(calls[t].lines), "strategy4")
    /\ Sequential

TStrategy4(t) ==
    /\ calls[t].pc = "strategy4"
    /\ calls' = Goes(calls, t, Phase4(calls[t].text), "returned")
    /\ Sequential

NextThreads ==
    \E t \in Threads :
        \/ TSplitLines(t)
        \/ TStrategy1(t)
        \/ TStrategy2(t)
        \/ TStrategy3(t)
        \/ TStrategy4(t)

SpecThreads == ThreadsCalled /\ [][NextThreads]_vars

\* a or else b
OrElse(a, b) == IF a # None THEN a ELSE b

\* find_total_amount(text) run alone, from its first line to its return
find_total_amount(txt) ==
    IF LinesOf(txt) = <<>>
    THEN None
    ELSE OrElse(Phase1(txt),
         OrElse(Phase2(LinesOf(txt)).amt,
         OrElse(Phase3(LinesOf(txt)), Phase4(txt))))

\* C13: find_total_amount is a function of its text alone: however the steps of
\* concurrent calls interleave, each call returns what a call alone returns
\* for its text, and the scanner's fields are never modified.
C13_PureOfText ==
    /\ scanner = ReceiptScanner
    /\ \A t \in DOMAIN calls :
           calls[t].pc = "returned" => calls[t].resolved = find_total_amount(calls[t].text)

\* thread 1 split its lines, then thread 2 ran a whole call on another text,
\* then thread 1 returned its own amount
C13_Witness ==
    /\ calls # <<>>
    /\ calls[1].text = "Item1: $10"
    /\ calls[1].pc = "returned"
    /\ calls[1].resolved = Amt(10, "")
    /\ calls[2].text = "Tax $8.04"
    /\ calls[2].pc = "returned"
    /\ calls[2].resolved = Amt(8, "04")

(***************************************************************************)
(* Receipts whose lines are matched by several of the direct patterns.     *)
(***************************************************************************)
MaxDirectLines == 2

DirectLines ==
    { "Total: $30", "Total: $45.00", "Total: $0", "TOTAL: $60000.00", "RM 99.00",
      "Grand Total: $70.00", "Total (RM) : 436.20", "incl. GST 5.00", "Final Total 12.00",
      "Total Amt Payable: 6.35", "TOTAL. 8.80", "RM 0.00", "Thank you" }

RECURSIVE TextsFrom(_, _)
\* the texts of exactly n lines of V
TextsFrom(V, n) ==
    IF n = 1 THEN V ELSE {t \o "\n" \o ln : t \in TextsFrom(V, n - 1), ln \in V}

SpecDirect ==
    Called(UNION {TextsFrom(DirectLines, n) : n \in 1..MaxDirectLines}) /\ [][Next]_vars

\* the matches of the j-th direct pattern in the text, in text order
DirectFound(j) == findall(direct_patterns[j], text, TRUE)

Accepted(v) == v # None /\ InRange(Amount001, v, Amount50000)

\* the matches of ms with an accepted amount
AcceptedAt(ms) == {k \in 1..Len(ms) : Accepted(parse_amt(ms[k]))}

LastOf(K) == CHOOSE k \in K : \A h \in K : h <= k

\* ms has an accepted match and r is the amount of the last of them
LastAcceptedIs(ms, r) == AcceptedAt(ms) # {} /\ r = parse_amt(ms[LastOf(AcceptedAt(ms))])

\* C14: strategy 1 returns the amount of the last accepted match of the first
\* pattern of the list that has an accepted match, and yields nothing only
\* when no pattern has one.
C14_PatternOrder ==
    /\ pc = "returned" /\ phase = 1 =>
           \E j \in 1..Len(direct_patterns) :
               /\ \A i \in 1..(j - 1) : AcceptedAt(DirectFound(i)) = {}
               /\ LastAcceptedIs(DirectFound(j), resolved)
    /\ pc = "strategy2" =>
           \A j \in 1..Len(direct_patterns) : AcceptedAt(DirectFound(j)) = {}

\* the second pattern's match was returned although the last pattern has a
\* match further down the text
C14_Witness ==
    /\ pc = "returned"
    /\ phase = 1
    /\ text = "Total: $30\nRM 99.00"
    /\ resolved = Amt(30, "")
    /\ LastAcceptedIs(DirectFound(8), Amt(99, ""))

(***************************************************************************)
(* Receipts that no direct pattern matches, so that the line scan, the     *)
(* bottom region and the global scan decide.                               *)
(***************************************************************************)
MaxScanLines == 3

ScanLines ==
    { "T0TAL $12.00", "Total $..", "Amount Due", "Item1: $10", "Pretax 20.00",
      "Cash Tendered: $50.00 Change: $5.16", "Subscription T0tal 9.00", "Visa 45.00",
      "Thank you" }

SpecScan == Called(UNION {TextsFrom(ScanLines, n) : n \in 1..MaxScanLines}) /\ [][Next]_vars

\* a line with a total keyword, no skip or exclude keyword and no "sub"
Eligible(ln) ==
    /\ AnyIn(lower(ln), total_keywords)
    /\ ~AnyIn(lower(ln), skip_keywords \o exclude_line_keywords)
    /\ ~Contains(lower(ln), "sub")

\* own, the amount of line k, or else the amount of the line below it
OwnOrNext(own, k) ==
    IF own # None THEN [amt |-> own, src |-> k]
    ELSE IF k < Len(lines) THEN [amt |-> extract_amount_from_line(lines[k + 1]), src |-> k + 1]
    ELSE NoHit

Yield(k) == OwnOrNext(extract_amount_from_line(lines[k]), k)

\* C15: strategy 2 returns at the bottom-most eligible line that yields an
\* amount, its own or else that of the line below it; eligible lines that
\* yield neither are passed over, and strategy 2 yields nothing only when no
\* eligible line yields an amount.
C15_LineScan ==
    /\ pc = "returned" /\ phase = 2 =>
           \E k \in 1..Len(lines) :
               /\ Eligible(lines[k])
               /\ Yield(k).amt = resolved
               /\ Yield(k).src = src
               /\ \A h \in (k + 1)..Len(lines) : Eligible(lines[h]) => Yield(h).amt = None
    /\ pc = "strategy3" =>
           \A k \in 1..Len(lines) : Eligible(lines[k]) => Yield(k).amt = None

\* the keyword line at the bottom has no amount and the line below it has
\* none; the scan went on to the keyword line above, which has its own
C15_Witness ==
    /\ pc = "returned"
    /\ phase = 2
    /\ text = "T0TAL $12.00\nTotal $..\nThank you"
    /\ resolved = Amt(12, "")
    /\ src = 1

\* C16: strategy 3 never returns an amount that only lines holding a phrase of
\* skip_keywords or exclude_line_keywords supply.
C16_BottomSkipsExcluded ==
    pc = "returned" /\ phase = 3 =>
        \E k \in 1..Len(lines) :
            /\ ~AnyIn(lower(lines[k]), skip_keywords \o exclude_line_keywords)
            /\ extract_amount_from_line(lines[k]) = resolved

(***************************************************************************)
(* Long receipts: BottomLines - 1 to BottomLines + MaxAbove lines without  *)
(* a keyword, all alike but one.                                           *)
(***************************************************************************)
MaxAbove == 1

RECURSIVE LongText(_, _, _, _)
\* n lines, the p-th of them `one`, the others `rest`
LongText(n, p, one, rest) ==
    IF n = 0 THEN ""
    ELSE LongText(n - 1, p, one, rest)
         \o (IF n = 1 THEN "" ELSE "\n")
         \o (IF n = p THEN one ELSE rest)

LongTexts ==
    { LongText(n, p, one, rest) :
        n \in (BottomLines - 1)..(BottomLines + MaxAbove),
        p \in 1..(BottomLines + MaxAbove),
        one \in {"900.00", "60000.00", "0.50"},
        rest \in {"2.00", "x"} }

SpecLong == Called(LongTexts) /\ [][Next]_vars

\* the lines strategy 3 is said to examine: the last BottomLines of them
InBottom(k) == k >= 1 /\ k <= Len(lines) /\ Len(lines) - k < BottomLines

Kept(v) == v # None /\ InRange(Amount1, v, Amount50000)

\* the amounts in [1.0, 50000] of the examined lines that are not skipped
KeptAmounts ==
    { extract_amount_from_line(lines[k]) :
        k \in {h \in 1..Len(lines) :
                 /\ InBottom(h)
                 /\ ~AnyIn(lower(lines[h]), bottom_skip)
                 /\ Kept(extract_amount_from_line(lines[h]))} }

LineMatches(line) ==
    UNION { {findall(line_patterns[j], line, FALSE)[k] :
                k \in 1..Len(findall(line_patterns[j], line, FALSE))} :
            j \in 1..Len(line_patterns) }

\* their amounts that parse and lie in [0.01, 50000]
LineValid(ms) == {parse_amt(m) : m \in {c \in ms : Accepted(parse_amt(c))}}

IsMaxOrAbsent(v, S) == IF S = {} THEN v = None ELSE v \in S /\ \A w \in S : Leq(w, v)

\* C18: extract_amount_from_line returns the largest of the amounts matched
\* on the line by any of its five patterns that parse and lie in
\* [0.01, 50000], and None when there is none.
C18_LargestOnLine ==
    pc = "extracted" => IsMaxOrAbsent(val, LineValid(LineMatches(arg)))

\* a line with two valid amounts, the smaller one last
C18_Witness ==
    /\ pc = "extracted"
    /\ arg = "$50.00 $5.16"
    /\ val = Amt(50, "")
    /\ Amt(5, "16") \in LineValid(LineMatches(arg))

DotsAt(c) == {i \in 1..Len(c) : Ch(c, i) = "."}

\* the position of the n-th point of c, past its end when it has fewer
DotAt(c, n) ==
    IF Cardinality(DotsAt(c)) < n THEN Len(c) + 1
    ELSE CHOOSE i \in DotsAt(c) : Cardinality({j \in DotsAt(c) : j < i}) = n - 1

\* "a.b.c..." read as "a.b"
FirstTwoSegments(c) == SubSeq(c, 1, DotAt(c, 2) - 1)

\* the number written as digits i, a point and digits f
Number(i, f) == IF i = "" /\ f = "" THEN None ELSE Amt(NatOf(i, 0), StripZeros(f))

NumberOf(c) == Number(SubSeq(c, 1, DotAt(c, 1) - 1), SubSeq(c, DotAt(c, 1) + 1, Len(c)))

AtMost100000(v) == IF v # None /\ Gt(v, Amount100000) THEN None ELSE v

\* C20: parse_amt returns None for a cleaned string that is empty or a lone
\* point; otherwise it reads the first two point-separated segments of the
\* cleaned string as a number and returns it, or None when it exceeds 100000;
\* the cleaned string holds no sign, so the value is never negative.
C20_ParseAmount ==
    pc = "parsed" =>
        /\ \A i \in 1..Len(cleaned) : Ch(cleaned, i) \in DigitCh \cup {"."}
        /\ cleaned \in {"", "."} => val = None
        /\ val = AtMost100000(NumberOf(FirstTwoSegments(cleaned)))
        /\ val # None => val.ip >= 0 /\ Leq(val, Amount100000)

\* a candidate with two points, read as its first two segments
C20_Witness ==
    /\ pc = "parsed"
    /\ arg = "12.34.56"
    /\ cleaned = "12.34.56"
    /\ val = Amt(12, "34")

(***************************************************************************)
(* Receipts whose amounts the bottom region skips or rejects, so that the  *)
(* global scan decides.                                                    *)
(***************************************************************************)
MaxGlobalLines == 2

GlobalLines ==
    { "Change 10000.01", "Change 10000.00", "Cash 1.00", "Change 0.99", "Cash 12.345",
      "Cash 12.5", "Cash 7", "Cash Tendered: $50.00 Change: $5.16", "Pretax 20.00",
      "Cash 12.05.2020", "0.50", "Item1: $10", "Thank you" }

SpecGlobal ==
    Called(UNION {TextsFrom(GlobalLines, n) : n \in 1..MaxGlobalLines}) /\ [][Next]_vars

RECURSIVE DigitsBefore(_, _)
\* the number of digits of s that end just before position d
DigitsBefore(s, d) ==
    IF d > 1 /\ Ch(s, d - 1) \in DigitCh THEN 1 + DigitsBefore(s, d - 1) ELSE 0

NoWordAt(s, i) == i < 1 \/ i > Len(s) \/ Ch(s, i) \notin WordCh

\* the point at d stands in a number of the form digits, point, two digits,
\* with no letter, digit or underscore next to it on either side
TwoDecimalsAt(s, d) ==
    /\ DigitsBefore(s, d) >= 1
    /\ NoWordAt(s, d - DigitsBefore(s, d) - 1)
    /\ d + 2 <= Len(s)
    /\ Ch(s, d + 1) \in DigitCh
    /\ Ch(s, d + 2) \in DigitCh
    /\ NoWordAt(s, d + 3)

StrictTwoDecimals(s) ==
    {SubSeq(s, d - DigitsBefore(s, d), d + 2) : d \in {e \in DotsAt(s) : TwoDecimalsAt(s, e)}}

\* their values in [1.0, 10000]
Qualifying(ds) == {float(d) : d \in {c \in ds : InRange(Amount1, float(c), Amount10000)}}

\* C19: strategy 4 runs only when strategies 1 to 3 yielded nothing; it
\* returns the largest of the strict two-decimal numbers of the text with a
\* value in [1.0, 10000], and None when no number qualifies.
C19_GlobalScan ==
    /\ pc = "strategy4" =>
           Phase1(text) = None /\ Phase2(lines).amt = None /\ Phase3(lines) = None
    /\ pc = "returned" /\ phase = 4 =>
           /\ Qualifying(StrictTwoDecimals(text)) # {}
           /\ IsMaxOrAbsent(resolved, Qualifying(StrictTwoDecimals(text)))
    /\ pc = "returned" /\ phase = 0 /\ lines # <<>> =>
           Qualifying(StrictTwoDecimals(text)) = {}

\* 1.00 was returned from a text that also holds 10000.01
C19_Witness ==
    /\ pc = "returned"
    /\ phase = 4
    /\ text = "Change 10000.01\nCash 1.00"
    /\ resolved = Amt(1, "")

(***************************************************************************)
(* Receipts whose amounts are printed with three decimals, a thousands     *)
(* separator, a line break inside the match, or fields near the upper      *)
(* bound.                                                                  *)
(***************************************************************************)
MaxPrintedLines == 2

PrintedLines ==
    { "Total: 12.345", "TOTAL: $1,234.56", "Total: 30", "5 items", "Item Total",
      "$40.00", "Subtotal $49999.99", "Tax $8.04", "Total: $45.00", "Thank you" }

SpecPrinted ==
    Called(UNION {TextsFrom(PrintedLines, n) : n \in 1..MaxPrintedLines}) /\ [][Next]_vars

\* C21: a value returned by find_total_amount is non-negative and has at most
\* two fractional digits.
C21_TwoFractionalDigits ==
    pc = "returned" /\ resolved # None =>
        /\ resolved.ip >= 0
        /\ Len(resolved.fr) <= 2

\* phase k of find_total_amount run alone yields a value on the text
Yields(k, txt) ==
    CASE k = 1 -> Phase1(txt) # None
      [] k = 2 -> Phase2(LinesOf(txt)).amt # None
      [] k = 3 -> Phase3(LinesOf(txt)) # None
      [] k = 4 -> Phase4(txt) # None

\* C22: each phase is more permissive than the one before it: when phase k
\* run alone on the text yields a value, so does phase k + 1, for k in 1..3.
C22_MorePermissive ==
    pc = "returned" => \A k \in 1..3 : Yields(k, text) => Yields(k + 1, text)

\* C23: a total returned by parse_receipt lies in [0.01, 50000], also when
\* it is the sum of subtotal and tax put in place of the resolver's value.
C23_TotalInRange ==
    pc = "done" /\ total # None => InRange(Amount001, total, Amount50000)

\* amounts printed with a thousands separator, and their values
SeparatedAmounts ==
    { [printed |-> "1,234.56", value |-> Amt(1234, "56")] }

\* C24: for a labelled total line whose amount is printed with a thousands
\* separator, as in "TOTAL: $1,234.56", find_total_amount returns the whole
\* printed amount, 1234.56.
C24_ThousandsSeparator ==
    \A a \in SeparatedAmounts :
        pc = "returned" /\ text = "TOTAL: $" \o a.printed => resolved = a.value

\* the strings parse_amt reads out of the parts of a line
PartsOf(line) ==
    {parse_amt(SubSeq(line, i, j)) : i \in 1..Len(line), j \in 1..Len(line)} \ {None}

\* C25: an amount accepted in strategy 1 is read from one line of the text,
\* a line on which strategy 1 finds a total by itself: digits of the line
\* below are not part of it.
C25_SameLine ==
    pc = "returned" /\ phase = 1 =>
        \E k \in 1..Len(lines) :
            /\ \E j \in 1..Len(direct_patterns) :
                   findall(direct_patterns[j], lines[k], TRUE) # <<>>
            /\ resolved \in PartsOf(lines[k])

(***************************************************************************)
(* The lyrics backend (Task8/backend/main.py, transcriber.py).  A job is   *)
(* created by start_processing and processed by its own thread running     *)
(* process_video; the handlers run one at a time on the event loop, and    *)
(* the threads interleave with them and with each other between any two    *)
(* statements.  Job ids are numbered in the order of creation (the code    *)
(* draws the first 8 characters of a uuid4, taken to be fresh).  The       *)
(* position of a thread is the line of main.py, or of transcriber.py and   *)
(* save_history inside their calls, that it executes next.                 *)
(***************************************************************************)
MaxJobs == 2

\* model_size of a request: "small" is the default
ModelSizes == {"small", "tiny"}

\* the percentages the download hook reports
Percents == {50, 100}

KeepLast == 50

raw_text == "la la la"

\* the receipt scanner is not called
NoReceipt ==
    /\ text = ""
    /\ pc = "idle"
    /\ lines = <<>>
    /\ resolved = None
    /\ phase = 0
    /\ src = 0
    /\ raised = FALSE
    /\ subtotal = None
    /\ tax = None
    /\ total = None
    /\ arg = ""
    /\ cleaned = ""
    /\ val = None
    /\ calls = <<>>
    /\ scanner = ReceiptScanner

receipts ==
    <<text, pc, lines, resolved, phase, src, raised, subtotal, tax, total, arg, cleaned, val,
      calls, scanner>>

\* a history file written by earlier runs: KeepLast entries, written 0
Earlier == [i \in 1..KeepLast |-> 0]

\* the server started, with or without a history file
Serving(H) == NoReceipt /\ Imported(H)

\* threading.Thread(target=process_video, args=(job_id, req.url, req.model_size))
Thread(size) == [pc |-> "l92", model_size |-> size, model |-> null, data |-> <<>>]

At(j, l) == j \in DOMAIN threads /\ threads[j].pc = l

\* where a `return` of process_video leaves its thread
AfterFailure_FallThrough == "l118"

AfterFailure == "finished"

\* where an exception raised inside the try block goes: except Exception
Handler_None == "finished"

Handler == "l210"

\* the assignments to the job record: line, field, value, next line
Assignments ==
    << <<"l92", "status", "fetching_info", "l93">>,
       <<"l93", "progress", 5, "l96">>,
       <<"l99", "status", "downloading", "l100">>,
       <<"l100", "progress", 10, "l111">>,
       <<"l114", "status", "failed", AfterFailure>>,
       <<"l118", "status", "transcribing", "l119">>,
       <<"l119", "progress", 25, "l122">>,
       <<"l125", "status", "failed", AfterFailure>>,
       <<"l132", "status", "processing", "l133">>,
       <<"l133", "progress", 60, "l137">>,
       <<"l158", "progress", 75, "l166">>,
       <<"l168", "progress", 85, "l174">>,
       <<"l189", "status", "done", "l190">>,
       <<"l190", "progress", 100, "l192">>,
       <<"l192", "lyrics", raw_text, "l194">>,
       <<"l194", "wordcloud_url", "/download/wordcloud/{job_id}", "l195">>,
       <<"l195", "pdf_url", "/download/pdf/{job_id}", "l206">>,
       <<"l210", "status", "failed", "finished">> >>

\* jobs[job_id][field] = value
Assign(j) ==
    \E i \in 1..Len(Assignments) :
        /\ At(j, Assignments[i][1])
        /\ jobs' = [jobs EXCEPT ![j][Assignments[i][2]] = Assignments[i][3]]
        /\ threads' = [threads EXCEPT ![j].pc = Assignments[i][4]]
        /\ UNCHANGED <<receipts, history, history_file, _model, loads, loop, response>>

\* the calls that change nothing of the state kept here: line, next line,
\* and whether the call can raise.  get_video_info catches its exceptions
\* and returns None; lines 137-156 process the lyrics; make_advanced_wordcloud
\* and build_lyrics_pdf write files and let their exceptions through; a
\* failure to remove the audio file (lines 184-187) is ignored.
Steps ==
    << <<"l96", "l99", FALSE>>,
       <<"l137", "l158", TRUE>>,
       <<"l166", "l168", TRUE>>,
       <<"l174", "l189", TRUE>> >>

Call(j) ==
    \E i \in 1..Len(Steps) :
        /\ At(j, Steps[i][1])
        /\ \/ threads' = [threads EXCEPT ![j].pc = Steps[i][2]]
           \/ Steps[i][3] /\ threads' = [threads EXCEPT ![j].pc = Handler]
        /\ UNCHANGED <<receipts, jobs, history, history_file, _model, loads, loop, response>>

\* update_download_progress, called back by the download
DownloadProgress(j) ==
    /\ At(j, "l111")
    /\ \E percent \in Percents :
           jobs' = [jobs EXCEPT ![j].progress = 10 + (percent * 14) \div 100]
    /\ UNCHANGED <<receipts, history, history_file, _model, loads, threads, loop, response>>

\* audio_path = grab_audio_from_yt(...): a path, or None after any failure
GrabAudio(j) ==
    /\ At(j, "l111")
    /\ \E audio_path \in {"temp_files/{job_id}_audio.wav", null} :
           threads' = [threads EXCEPT ![j].pc = IF audio_path = null THEN "l114" ELSE "l118"]
    /\ UNCHANGED <<receipts, jobs, history, history_file, _model, loads, loop, response>>

\* transcribe_audio calls get_whisper_model: if _model is None
GetWhisperModel(j) ==
    /\ At(j, "l122")
    /\ threads' = [threads EXCEPT ![j].pc = IF _model = null THEN "t34" ELSE "t36"]
    /\ UNCHANGED <<receipts, jobs, history, history_file, _model, loads, loop, response>>

\* _model = whisper.load_model(model_size), or an exception, which
\* transcribe_audio catches to return None
LoadModel(j) ==
    /\ At(j, "t34")
    /\ \/ /\ _model' = threads[j].model_size
          /\ loads' = loads + 1
          /\ threads' = [threads EXCEPT ![j].pc = "t36"]
       \/ /\ threads' = [threads EXCEPT ![j].pc = "l125"]
          /\ UNCHANGED <<_model, loads>>
    /\ UNCHANGED <<receipts, jobs, history, history_file, loop, response>>

\* return _model, into transcribe_audio's `model`
ReturnModel(j) ==
    /\ At(j, "t36")
    /\ threads' = [threads EXCEPT ![j].model = _model, ![j].pc = "t94"]
    /\ UNCHANGED <<receipts, jobs, history, history_file, _model, loads, loop, response>>

\* model.transcribe(...) and the rest of transcribe_audio: the transcript,
\* or None when it is empty or an exception was caught
Transcribe(j) ==
    /\ At(j, "t94")
    /\ \E transcript \in {raw_text, null} :
           threads' = [threads EXCEPT ![j].pc = IF transcript = null THEN "l125" ELSE "l132"]
    /\ UNCHANGED <<receipts, jobs, history, history_file, _model, loads, loop, response>>

\* history.append(history_entry)
AppendHistory(j) ==
    /\ At(j, "l206")
    /\ history' = Append(history, j)
    /\ threads' = [threads EXCEPT ![j].pc = "l61"]
    /\ UNCHANGED <<receipts, jobs, history_file, _model, loads, loop, response>>

\* history[-50:]
LastEntries(h) == SubSeq(h, IF Len(h) > KeepLast THEN Len(h) - KeepLast + 1 ELSE 1, Len(h))

\* what closing a file opened for writing leaves in it: the buffered
\* document written from offset 0 over what the file holds by then
Flushed(data, file) == Document(data) \o SubSeq(file, Len(data) + 2, Len(file))

\* save_history, a step at a time in the frame f of its caller: the frame
\* and the file after open(HISTORY_FILE, 'w'), which truncates the file,
\* after json.dump(history[-50:], f), which fills the buffer, and after
\* leaving the with block, which writes it
save_history(f) ==
    CASE f.pc = "l61" -> [frame |-> [f EXCEPT !.pc = "l62"], file |-> <<>>]
      [] f.pc = "l62" ->
             [frame |-> [f EXCEPT !.pc = "l63", !.data = LastEntries(history)],
              file |-> history_file]
      [] f.pc = "l63" ->
             [frame |-> [f EXCEPT !.pc = "saved", !.data = <<>>],
              file |-> Flushed(f.data, history_file)]

Saving(f) == f.pc \in {"l61", "l62", "l63"}

\* the caller's frame when save_history returned to `next`
Returned_To(f, next) == IF f.pc = "saved" THEN [f EXCEPT !.pc = next] ELSE f

\* save_history() at the end of process_video
Save(j) ==
    /\ j \in DOMAIN threads
    /\ Saving(threads[j])
    /\ history_file' = save_history(threads[j]).file
    /\ threads' = [threads EXCEPT ![j] = Returned_To(save_history(threads[j]).frame, "finished")]
    /\ UNCHANGED <<receipts, jobs, history, _model, loads, loop, response>>

\* a step of the thread of job j
process_video(j) ==
    \/ Assign(j)
    \/ Call(j)
    \/ DownloadProgress(j)
    \/ GrabAudio(j)
    \/ GetWhisperModel(j)
    \/ LoadModel(j)
    \/ ReturnModel(j)
    \/ Transcribe(j)
    \/ AppendHistory(j)
    \/ Save(j)

\* POST /api/process with a YouTube url and a model_size of Sizes: a new job
\* and its thread
start_processing(Sizes) ==
    /\ loop = Idle
    /\ Len(jobs) < MaxJobs
    /\ jobs' = Append(jobs, Queued)
    /\ \E size \in Sizes : threads' = Append(threads, Thread(size))
    /\ UNCHANGED <<receipts, history, history_file, _model, loads, loop, response>>

\* GET /api/status/{job_id} for a known job: the job's record as it is
get_status ==
    /\ loop = Idle
    /\ \E job_id \in DOMAIN jobs : response' = jobs[job_id]
    /\ UNCHANGED <<receipts, jobs, history, history_file, _model, loads, threads, loop>>

\* DELETE /api/history: history = [], then save_history()
clear_history ==
    \/ /\ loop = Idle
       /\ history' = <<>>
       /\ loop' = [Idle EXCEPT !.pc = "l61"]
       /\ UNCHANGED <<receipts, jobs, history_file, _model, loads, threads, response>>
    \/ /\ Saving(loop)
       /\ history_file' = save_history(loop).file
       /\ loop' = Returned_To(save_history(loop).frame, "idle")
       /\ UNCHANGED <<receipts, jobs, history, _model, loads, threads, response>>

\* requests that leave model_size at its default, and the jobs' threads
NextJobs == start_processing({"small"}) \/ \E j \in 1..MaxJobs : process_video(j)

SpecJobs == Serving({<<>>}) /\ [][NextJobs]_vars

\* the order of the statuses of a job
Forward == <<"queued", "fetching_info", "downloading", "transcribing", "processing", "done">>

\* status b follows status a in Forward
Follows(a, b) == \E i \in 1..(Len(Forward) - 1) : Forward[i] = a /\ Forward[i + 1] = b

Terminal == {"done", "failed"}

\* C27: the status of a job starts as queued and changes only to the next
\* status of queued, fetching_info, downloading, transcribing, processing,
\* done, or from a status other than done and failed to failed; so no status
\* is skipped or revisited and done and failed are never left.
C27_StatusForward ==
    [][/\ \A j \in DOMAIN jobs' \ DOMAIN jobs : jobs'[j].status = "queued"
       /\ \A j \in DOMAIN jobs :
              /\ j \in DOMAIN jobs'
              /\ jobs'[j].status # jobs[j].status =>
                     \/ Follows(jobs[j].status, jobs'[j].status)
                     \/ jobs[j].status \notin Terminal /\ jobs'[j].status = "failed"]_vars

\* one job done and one failed while it was being processed
C27_Witness ==
    /\ Len(jobs) = 2
    /\ jobs[1].status = "done"
    /\ jobs[2].status = "failed"
    /\ jobs[2].progress = 85
    /\ \A j \in 1..2 : threads[j].pc = "finished"

Advance(j) ==
    \/ Assign(j)
    \/ Call(j)
    \/ GrabAudio(j)
    \/ GetWhisperModel(j)
    \/ LoadModel(j)
    \/ ReturnModel(j)
    \/ Transcribe(j)
    \/ AppendHistory(j)
    \/ Save(j)

\* while a thread has a step to take, a thread is scheduled, and each call
\* it makes returns or raises: a step other than a report of the download
\* hook is taken
LiveJobs == SpecJobs /\ WF_vars(\E j \in 1..MaxJobs : Advance(j))

\* C28: every job created by start_processing eventually has the status
\* done or failed.
C28_JobsEnd ==
    \A j \in 1..MaxJobs :
        (j \in DOMAIN jobs) ~> (j \in DOMAIN jobs /\ jobs[j].status \in Terminal)

\* a job failed by an exception of the PDF builder
C28_Witness ==
    /\ Len(jobs) >= 1
    /\ jobs[1].status = "failed"
    /\ jobs[1].progress = 85
    /\ threads[1].pc = "finished"

\* requests for a job's status while the jobs run
NextStatus == NextJobs \/ get_status

SpecStatus == Serving({<<>>}) /\ [][NextStatus]_vars

\* C26: a status response that shows the status done also shows progress 100
\* and the lyrics, the word cloud URL and the PDF URL of the job.
C26_DoneIsComplete ==
    response.status = "done" =>
        /\ response.progress = 100
        /\ response.lyrics # null
        /\ response.wordcloud_url # null
        /\ response.pdf_url # null

\* requests to clear the history while the jobs run, after a start with or
\* without a history file
NextHistory == NextJobs \/ clear_history

SpecHistory == Serving({<<>>, Earlier}) /\ [][NextHistory]_vars

\* every thread returned and the event loop runs no handler
Quiet == loop = Idle /\ \A j \in DOMAIN threads : threads[j].pc = "finished"

\* C29: once all jobs have finished and no request is in flight, the history
\* file holds the last 50 entries of the history, all of them when there are
\* fewer, in the same order; a file never written holds none.
C29_FileIsHistory ==
    Quiet =>
        \/ history_file = Document(LastEntries(history))
        \/ history_file = <<>> /\ history = <<>>

\* requests for either model size
NextModels == start_processing(ModelSizes) \/ \E j \in 1..MaxJobs : process_video(j)

SpecModels == Serving({<<>>}) /\ [][NextModels]_vars

\* C30: a job is transcribed with the Whisper model of the model_size it
\* requested, and whisper.load_model is called at most once per process.
C30_RequestedModel ==
    /\ \A j \in DOMAIN threads :
           threads[j].model # null => threads[j].model = threads[j].model_size
    /\ loads <= 1

====
